---- MODULE Spec2Model ----
(***************************************************************************)
(* split_image and the size check of ocr_image_parts, from                 *)
(* src/Backend/lambda/lambda_function.py.                                  *)
(*                                                                         *)
(* Number representation.  The source computes with floats; the model      *)
(* computes the same quantities exactly, as integers over a fixed scale:   *)
(*   overlap              in hundredths           (0.1  is 10)             *)
(*   upscale_factor       in tenths               (1.0  is 10, 0.5 is 5)   *)
(*   safety_factor        as SafetyNum/SafetyDen  (0.7  is 7/10)           *)
(*   grid_width           as width / grid_cols,  grid_height likewise      *)
(*   left, right          in units of 1/(100*grid_cols) pixel              *)
(*   upper, lower         in units of 1/(100*grid_rows) pixel              *)
(* The PNG encoder is outside the repository: the encoded size of a crop   *)
(* is an input, drawn from enc_sizes, the sizes the encoder yields for the *)
(* image at hand, and never more than a PNG of that many pixels can hold.  *)
(***************************************************************************)
EXTENDS Integers, Sequences, FiniteSets

\* ------------------------------------------------------------ bounds
\* min_grid_size ranges over 1..MaxMinGrid and the two values the source uses.
MaxMinGrid == 2
\* The largest measured size is MaxOversize times the enforced ceiling.
MaxOversize == 3
\* The most water resource names the text analysis yields.
MaxNames == 2

\* --------------------------------------------------- program constants
max_dim == 8000
SafetyNum == 7
SafetyDen == 10
MinCellDim == 500
UpscaleStep == 5
UpscaleFloor == 10
test_size == 5000
TextractLimit == 10000000
DefaultMaxSize == 10485760
DefaultMinGrid == 4
HandlerMinGrid == 6
OverlapScale == 100
UpscaleScale == 10
\* The PNG encoder (lines 29 and 71): the smallest file it writes, and the most
\* bytes per pixel a file holds beyond that (four 8-bit channels).
MinEncoded == 69
BytesPerPixelCap == 4
\* rgb_ratio is in tenths.
RatioScale == 10
\* statusCode of lambda_handler's responses; NoResponse before it has returned.
StatusOk == 200
StatusBadRequest == 400
StatusError == 500
NoResponse == 0

\* -------------------------------------------------------------- inputs
\* (width, height) of the images: one pixel, thinner than the grid, around the
\* 500-pixel cell floor, wider than max_dim, and the two images of the scenarios.
SmallImages == {<<1, 1>>, <<3, 900>>, <<900, 1300>>, <<1300, 1300>>, <<9000, 1300>>}
LargeImages == {<<20000, 16000>>, <<10000, 10000>>}

Overlaps == {0, 10}
MaxSizes == {1000, DefaultMaxSize}
BaseUpscales == {10, 12, 20}
MinGridSizes == (1..MaxMinGrid) \cup {DefaultMinGrid, HandlerMinGrid}

\* The event lambda_handler is invoked with: the S3 notification of an object
\* of the configured bucket; one of another bucket; one without 'Records' (or
\* with an empty list, or a record without the key); one whose object key is
\* not a string.
Events == {"ok", "other_bucket", "no_records", "key_not_str"}

\* What one call of geolocator.geocode does: it returns a location, returns
\* None, raises GeocoderTimedOut, raises GeocoderServiceError, or raises an
\* exception of neither class.
GeocodeResults == {"location", "None", "GeocoderTimedOut",
                   "GeocoderServiceError", "other_exception"}

Max(a, b) == IF a >= b THEN a ELSE b
Min(a, b) == IF a <= b THEN a ELSE b

\* A faulty ceil: the quotient rounded down.
FloorDivMutant(a, b) == a \div b
\* ceil(a / b) for a >= 0, b > 0
CeilDiv(a, b) == (a + b - 1) \div b

RECURSIVE Gcd(_, _)
Gcd(a, b) == IF b = 0 THEN a ELSE Gcd(b, a % b)

\* The largest whole size that does not exceed max_size * safety_factor.
ThrFloor(ms) == (ms * SafetyNum) \div SafetyDen

\* Sizes the encoder yields for a crop that fits: a typical one, and the largest.
FitSizes(ms) == {ThrFloor(ms) \div 2, ThrFloor(ms)}

\* Sizes the encoder yields for a crop that does not fit.  One byte over the
\* ceiling is drawn for the small max_size only: with the default the exact
\* oversize ratio has a seven-digit denominator, beyond TLC's integers.
OverSizes(ms) ==
    {ThrFloor(ms) + ThrFloor(ms) \div 4}
        \cup {k * ThrFloor(ms) : k \in 2..MaxOversize}
        \cup (IF ms < DefaultMaxSize THEN {ThrFloor(ms) + 1} ELSE {})

\* The encoder's behaviour on one image: one size for the crops that fit, and
\* the oversize sizes (an image wider than max_dim: one oversize ratio).
Profiles(w, ms) ==
    IF w > max_dim
    THEN {{f, 2 * ThrFloor(ms)} : f \in FitSizes(ms)}
    ELSE {{f} \cup OverSizes(ms) : f \in FitSizes(ms)}

\* Encoded sizes of the estimator's sample.
SampleSizes == {MinEncoded, 40000}

\* The sizes of `sizes` that an encoding of pixels pixels can have; the
\* smallest file when none of them can.
Encodable(sizes, pixels) ==
    LET fits == {s \in sizes : s <= BytesPerPixelCap * pixels + MinEncoded}
    IN  IF fits = {} THEN {MinEncoded} ELSE fits

\* Size of part.convert('RGB') re-encoded, relative to the size split_image
\* measured, in tenths: 10 for an image that is RGB already (the conversion is
\* a copy and the encoder is deterministic), more for a greyscale, palette or
\* bilevel image, whose pixels the conversion widens to three bytes.
RgbRatios == {10, 15}

VARIABLES
    \* parameters of split_image and properties of the image
    width, height, overlap, max_size, base_upscale_factor, min_grid_size,
    enc_sizes,
    \* locals of split_image
    size_per_pixel, M, N, upscale_factor, grid_cols, grid_rows,
    image_parts, all_parts_within_limit, i, j, part_size,
    \* control
    pc, outcome, result,
    \* ocr_image_parts
    rgb_ratio, ocr_skipped, ocr_sent,
    \* history
    first_attempt, levels, seeded,
    \* history: parts of a rejected attempt were dropped
    discarded,
    \* history: the number of calls of estimate_size_per_pixel
    est_calls,
    \* lambda_handler: its position ("direct" when split_image is called on
    \* its own), the event, whether its locals object_key and image_name are
    \* bound, the statusCode it returned, the exception that left it, whether
    \* the error object was written, whether a step of the try block raised
    hpc, event, object_key, image_name, statusCode, propagated, error_written,
    try_raised,
    \* lambda_handler's geocoding loop: the number of names in
    \* water_resources, the number of them the loop is done with, the names
    \* (by index) that have coordinates, and for the name geocoded last the
    \* result of its first call and of its retry ("" when there was none), the
    \* number of geocode calls and the number of sleeps
    n_names, name_idx, resource_coords, geocoding,
    \* history of the grid evaluation under way: the number of cells measured
    \* over the limit, and the size measured at the first of them
    overflows, overflow_size

inputs == <<width, height, overlap, max_size, base_upscale_factor,
            min_grid_size, enc_sizes>>
locals == <<size_per_pixel, M, N, upscale_factor, grid_cols, grid_rows,
            image_parts, all_parts_within_limit, i, j, part_size>>
ocr == <<rgb_ratio, ocr_skipped, ocr_sent>>
evaluation == <<overflows, overflow_size>>
history == <<first_attempt, levels, seeded, discarded, est_calls, evaluation>>
geo == <<n_names, name_idx, resource_coords, geocoding>>
handler == <<hpc, event, object_key, image_name, statusCode, propagated,
             error_written, try_raised, geo>>
callee == <<inputs, locals, pc, outcome, result, ocr, history>>
vars == <<callee, handler>>

\* ---------------------------------------------------- pure computations

\* estimate_size_per_pixel: <<S_small, P_small>> stands for S_small / P_small,
\* <<0, 1>> for the 0 of the zero-area sample.
estimate_size_per_pixel(w, h, ts, S_small) ==
    LET test_w == Min(ts, w)
        test_h == Min(ts, h)
        P_small == test_w * test_h
    IN  IF P_small > 0 THEN <<S_small, P_small>> ELSE <<0, 1>>

IsZero(q) == q[1] = 0

\* overlap_factor = 1 + 2 * overlap, in hundredths
overlap_factor(ov) == OverlapScale + 2 * ov

\* A faulty seed: min_grid_size left out.
SeedNoMinMutant(dim, ov, mg) ==
    CeilDiv(dim * overlap_factor(ov), max_dim * OverlapScale)
\* max(min_grid_size, ceil(dim * overlap_factor / max_dim))
SeedGrid(dim, ov, mg) ==
    Max(mg, CeilDiv(dim * overlap_factor(ov), max_dim * OverlapScale))

\* A faulty size check: safety_factor left out.
ExceedsNoSafetyMutant(ps, ms) == ps > ms
\* part_size > max_size * safety_factor
ExceedsLimit(ps, ms) == ps * SafetyDen > ms * SafetyNum

\* A faulty refinement: the "+ 1" left out.
RefinedNoIncrementMutant(m, ps, ms) ==
    LET g == Gcd(ps * SafetyDen, ms * SafetyNum)
        num == (ps * SafetyDen) \div g
        den == (ms * SafetyNum) \div g
        top == m * (num \div den + 1)
    IN  CHOOSE x \in 0..top :
            /\ x * x * den <= m * m * num
            /\ (x + 1) * (x + 1) * den > m * m * num
\* int(m * sqrt(part_size / (max_size * safety_factor))) + 1, the oversize
\* factor taken as the reduced fraction num / den.
RefinedCount(m, ps, ms) ==
    LET g == Gcd(ps * SafetyDen, ms * SafetyNum)
        num == (ps * SafetyDen) \div g
        den == (ms * SafetyNum) \div g
        top == m * (num \div den + 1)
        k == CHOOSE x \in 0..top :
                /\ x * x * den <= m * m * num
                /\ (x + 1) * (x + 1) * den > m * m * num
    IN  k + 1

\* Crop bounds of cell (ci, cj) of a cols x rows grid.
Left(w, cols, ov, ci) == Max(0, w * (OverlapScale * ci - ov))
Right(w, cols, ov, ci) ==
    Min(OverlapScale * cols * w, w * (OverlapScale * (ci + 1) + ov))

\* int((right - left) * upscale_factor), computed exactly.  (The float product
\* can fall just short of a whole number and truncate to one less; over the
\* images and grids of this model that never happens at a target of 1.)
ResizeTarget(lo, hi, cols, up) ==
    ((hi - lo) * up) \div (OverlapScale * cols * UpscaleScale)

\* The part built for cell (ci, cj) in the current attempt, with its size.
MakePart(ci, cj, ps) ==
    LET l == Left(width, grid_cols, overlap, ci)
        r == Right(width, grid_cols, overlap, ci)
        u == Left(height, grid_rows, overlap, cj)
        d == Right(height, grid_rows, overlap, cj)
    IN  [i |-> ci, j |-> cj, cols |-> grid_cols, rows |-> grid_rows,
         upscale |-> upscale_factor,
         left |-> l, right |-> r, upper |-> u, lower |-> d,
         new_width |-> ResizeTarget(l, r, grid_cols, upscale_factor),
         new_height |-> ResizeTarget(u, d, grid_rows, upscale_factor),
         size |-> ps]

\* A faulty enumeration: the loops nested the other way round.
NextCellRowMajorMutant(ci, cj, m, n) ==
    IF ci + 1 < m THEN <<ci + 1, cj, TRUE>>
    ELSE IF cj + 1 < n THEN <<0, cj + 1, TRUE>>
    ELSE <<ci, cj, FALSE>>
\* The loops "for i in range(M): for j in range(N)": the cell after (ci, cj),
\* <<i, j, more>>.
NextCell(ci, cj, m, n) ==
    IF cj + 1 < n THEN <<ci, cj + 1, TRUE>>
    ELSE IF ci + 1 < m THEN <<ci + 1, 0, TRUE>>
    ELSE <<ci, cj, FALSE>>

\* A faulty size check: the part appended before its size is looked at.
KeepAlwaysMutant(parts, p, over) == Append(parts, p)
\* The part list after the size check of one cell: an oversize part is not kept.
PartsAfterCheck(parts, p, over) == IF over THEN parts ELSE Append(parts, p)

\* A faulty loop: no break after the cell that is over the limit.
NoBreakMutant(over, more) == ~more
\* Lines 73-78 and the ends of the two ranges: the enumeration of the grid
\* stops at the first cell over the limit, or with the last cell.
LoopEnds(over, more) == over \/ ~more

\* A faulty test: the cell dimensions of the enlarged grid, not of the grid
\* just evaluated.
CellTooSmallEnlargedMutant ==
    \/ width < MinCellDim * RefinedCount(grid_cols, part_size, max_size)
    \/ height < MinCellDim * RefinedCount(grid_rows, part_size, max_size)
\* grid_width < 500 or grid_height < 500
CellTooSmall == width < MinCellDim * grid_cols \/ height < MinCellDim * grid_rows

\* The image itself, the element of the fallback's [img].
WholeImage ==
    [i |-> 0, j |-> 0, cols |-> 1, rows |-> 1, upscale |-> UpscaleScale,
     left |-> 0, right |-> OverlapScale * width, upper |-> 0,
     lower |-> OverlapScale * height, new_width |-> width,
     new_height |-> height, size |-> 0]

\* len(img_bytes) in ocr_image_parts: the part converted to RGB and encoded anew.
ConvertedSize(p, ratio) == (p.size * ratio) \div RatioScale

\* ------------------------------------------------------------- states
\* The geocoding record of a name no call was made for yet.
NotGeocoded == [first |-> "", retry |-> "", calls |-> 0, sleeps |-> 0]

\* A call of split_image on its own, with any parameters, or an invocation of
\* lambda_handler, which calls it at line 227 with overlap=0.1,
\* min_grid_size=6 and the defaults.
Init ==
    /\ hpc \in {"direct", "event"}
    /\ event \in (IF hpc = "direct" THEN {"none"} ELSE Events)
    /\ object_key = "unbound"
    /\ image_name = "unbound"
    /\ statusCode = NoResponse
    /\ propagated = "none"
    /\ error_written = FALSE
    /\ try_raised = FALSE
    /\ n_names = 0
    /\ name_idx = 0
    /\ resource_coords = {}
    /\ geocoding = NotGeocoded
    /\ \E im \in SmallImages \cup LargeImages :
          /\ width = im[1]
          /\ height = im[2]
          /\ min_grid_size \in
                (IF hpc = "event" THEN {HandlerMinGrid}
                 ELSE IF im \in LargeImages THEN {DefaultMinGrid, HandlerMinGrid}
                 ELSE MinGridSizes)
          /\ overlap \in
                (IF hpc = "event" \/ im \in LargeImages THEN {10} ELSE Overlaps)
          /\ max_size \in
                (IF hpc = "event" \/ im \in LargeImages THEN {DefaultMaxSize}
                                                         ELSE MaxSizes)
          /\ base_upscale_factor \in
                (IF hpc = "event" \/ im \in LargeImages THEN {UpscaleFloor}
                                                         ELSE BaseUpscales)
    /\ enc_sizes \in Profiles(width, max_size)
    /\ size_per_pixel = <<0, 1>>
    /\ M = 0
    /\ N = 0
    /\ upscale_factor = 0
    /\ grid_cols = 0
    /\ grid_rows = 0
    /\ image_parts = <<>>
    /\ all_parts_within_limit = TRUE
    /\ i = 0
    /\ j = 0
    /\ part_size = 0
    /\ pc = "estimate"
    /\ outcome = "none"
    /\ result = <<>>
    /\ rgb_ratio = 0
    /\ ocr_skipped = {}
    /\ ocr_sent = {}
    /\ first_attempt = TRUE
    /\ levels = {}
    /\ seeded = FALSE
    /\ discarded = FALSE
    /\ est_calls = 0
    /\ overflows = 0
    /\ overflow_size = 0

\* A faulty seeding: the estimate sizes the grid, a column and a row more for
\* a sample that encodes to more than the smallest file.
SeedFromEstimateMutant(spp) ==
    IF IsZero(spp) THEN <<0, 0>>
    ELSE IF spp[1] > MinEncoded
         THEN <<SeedGrid(width, overlap, min_grid_size) + 1,
                SeedGrid(height, overlap, min_grid_size) + 1>>
         ELSE <<SeedGrid(width, overlap, min_grid_size),
                SeedGrid(height, overlap, min_grid_size)>>
\* Lines 40-49, what the code that follows the estimator's call makes of the
\* estimate spp: <<M, N>> of the seed grid, <<0, 0>> when the call returns
\* [img] and seeds no grid.
SeedAfterEstimate(spp) ==
    IF IsZero(spp) THEN <<0, 0>>
    ELSE <<SeedGrid(width, overlap, min_grid_size),
           SeedGrid(height, overlap, min_grid_size)>>

\* Lines 36-51: open, estimate, fall back or seed the grid.
Estimate ==
    /\ pc = "estimate"
    /\ hpc \in {"direct", "split_image"}
    /\ \E S_small \in Encodable(SampleSizes,
                                 Min(test_size, width) * Min(test_size, height)) :
          size_per_pixel' = estimate_size_per_pixel(width, height, test_size, S_small)
    /\ IF IsZero(size_per_pixel')
       THEN /\ result' = <<WholeImage>>
            /\ outcome' = "fallback"
            /\ pc' = "ocr"
            /\ UNCHANGED <<M, N, upscale_factor, seeded>>
       ELSE /\ M' = SeedAfterEstimate(size_per_pixel')[1]
            /\ N' = SeedAfterEstimate(size_per_pixel')[2]
            /\ upscale_factor' = base_upscale_factor
            /\ seeded' = TRUE
            /\ pc' = "grid"
            /\ UNCHANGED <<result, outcome>>
    /\ est_calls' = est_calls + 1
    /\ UNCHANGED <<handler, inputs, grid_cols, grid_rows, image_parts,
                   all_parts_within_limit, i, j, part_size, ocr, first_attempt,
                   levels, discarded, evaluation>>

\* A faulty loop head: the list is not emptied, the parts of the attempts
\* before stay in it.
KeptPartsMutant == image_parts
\* image_parts = [] at the head of each pass of the while loop.
FreshParts == <<>>

\* Lines 52-59: the head of the while loop, a new grid evaluation.
BeginGrid ==
    /\ pc = "grid"
    /\ grid_cols' = M
    /\ grid_rows' = N
    /\ image_parts' = FreshParts
    /\ discarded' = (discarded \/ image_parts # <<>>)
    /\ all_parts_within_limit' = TRUE
    /\ i' = 0
    /\ j' = 0
    /\ levels' = levels \cup {upscale_factor}
    /\ overflows' = 0
    /\ overflow_size' = 0
    /\ pc' = "cell"
    /\ UNCHANGED <<handler, inputs, est_calls,
                   size_per_pixel, M, N, upscale_factor, part_size,
                   outcome, result, ocr, seeded, first_attempt>>

\* The resize target of the current cell has no pixels.
EmptyTarget ==
    LET p == MakePart(i, j, 0) IN p.new_width < 1 \/ p.new_height < 1

\* Lines 62-72 on a cell whose resize target is empty: resize (or the save of
\* an empty image) raises, and split_image returns nothing.
CellRaises ==
    /\ pc = "cell"
    /\ EmptyTarget
    /\ outcome' = "raised"
    /\ pc' = "done"
    /\ UNCHANGED <<handler, inputs, locals, result, ocr, history>>

\* Lines 62-78: crop, resize, encode and check one cell.
EvalCell ==
    /\ pc = "cell"
    /\ ~EmptyTarget
    /\ \E ps \in Encodable(enc_sizes, MakePart(i, j, 0).new_width
                                          * MakePart(i, j, 0).new_height) :
          LET over == ExceedsLimit(ps, max_size)
              nxt == NextCell(i, j, M, N)
          IN  /\ part_size' = ps
              /\ image_parts' = PartsAfterCheck(image_parts, MakePart(i, j, ps), over)
              /\ all_parts_within_limit' = (all_parts_within_limit /\ ~over)
              /\ overflows' = IF over THEN overflows + 1 ELSE overflows
              /\ overflow_size' = IF over /\ overflows = 0 THEN ps
                                                            ELSE overflow_size
              /\ IF LoopEnds(over, nxt[3])
                 THEN pc' = "decide" /\ UNCHANGED <<i, j>>
                 ELSE pc' = "cell" /\ i' = nxt[1] /\ j' = nxt[2]
    /\ UNCHANGED <<handler, inputs, est_calls,
                   size_per_pixel, M, N, upscale_factor, grid_cols,
                   grid_rows, outcome, result, ocr, first_attempt, levels,
                   seeded, discarded>>

\* Lines 80-81: every cell fitted.
Accept ==
    /\ pc = "decide"
    /\ all_parts_within_limit
    /\ result' = image_parts
    /\ outcome' = "accepted"
    /\ pc' = "ocr"
    /\ UNCHANGED <<handler, inputs, locals, ocr, history>>

\* Lines 82-88: a cell overflowed and both cell dimensions are at least 500.
RefineRetry ==
    /\ pc = "decide"
    /\ ~all_parts_within_limit
    /\ ~CellTooSmall
    /\ M' = RefinedCount(M, part_size, max_size)
    /\ N' = RefinedCount(N, part_size, max_size)
    /\ seeded' = FALSE
    /\ first_attempt' = FALSE
    /\ pc' = "grid"
    /\ UNCHANGED <<handler, inputs, est_calls,
                   size_per_pixel, upscale_factor, grid_cols, grid_rows,
                   image_parts, all_parts_within_limit, i, j, part_size,
                   outcome, result, ocr, levels, discarded,
                   evaluation>>

\* A faulty reduction: the enlarged grid is kept for the reduced upscale.
ReduceUpscaleKeepsGridMutant ==
    /\ pc = "decide"
    /\ ~all_parts_within_limit
    /\ CellTooSmall
    /\ upscale_factor > UpscaleFloor
    /\ upscale_factor' = upscale_factor - UpscaleStep
    /\ M' = RefinedCount(M, part_size, max_size)
    /\ N' = RefinedCount(N, part_size, max_size)
    /\ seeded' = TRUE
    /\ first_attempt' = FALSE
    /\ pc' = "grid"
    /\ UNCHANGED <<handler, inputs, est_calls,
                   size_per_pixel, grid_cols, grid_rows, image_parts,
                   all_parts_within_limit, i, j, part_size, outcome, result,
                   ocr, levels, discarded,
                   evaluation>>
\* Lines 82-92: a cell overflowed, a cell dimension is below 500, upscale > 1.0.
ReduceUpscale ==
    /\ pc = "decide"
    /\ ~all_parts_within_limit
    /\ CellTooSmall
    /\ upscale_factor > UpscaleFloor
    /\ upscale_factor' = upscale_factor - UpscaleStep
    /\ M' = SeedGrid(width, overlap, min_grid_size)
    /\ N' = SeedGrid(height, overlap, min_grid_size)
    /\ seeded' = TRUE
    /\ first_attempt' = FALSE
    /\ pc' = "grid"
    /\ UNCHANGED <<handler, inputs, est_calls,
                   size_per_pixel, grid_cols, grid_rows, image_parts,
                   all_parts_within_limit, i, j, part_size, outcome, result,
                   ocr, levels, discarded,
                   evaluation>>

\* Lines 82-94: a cell overflowed, a cell dimension is below 500, upscale <= 1.0.
GiveUp ==
    /\ pc = "decide"
    /\ ~all_parts_within_limit
    /\ CellTooSmall
    /\ ~(upscale_factor > UpscaleFloor)
    /\ M' = RefinedCount(M, part_size, max_size)
    /\ N' = RefinedCount(N, part_size, max_size)
    /\ seeded' = FALSE
    /\ result' = image_parts
    /\ outcome' = "givenup"
    /\ pc' = "ocr"
    /\ UNCHANGED <<handler, inputs, est_calls,
                   size_per_pixel, upscale_factor, grid_cols, grid_rows,
                   image_parts, all_parts_within_limit, i, j, part_size,
                   ocr, first_attempt, levels, discarded,
                   evaluation>>

\* Lines 96-125, ocr_image_parts on the parts split_image returned: each part is
\* converted to RGB and encoded anew (rgb_ratio is what that does to the sizes
\* of this image), and skipped when over the Textract limit.  ocr_sent are the
\* parts that pass the check and go on to verify and Textract (lines 110-124).
OcrImageParts ==
    /\ pc = "ocr"
    /\ \E ratio \in RgbRatios :
          /\ rgb_ratio' = ratio
          /\ ocr_skipped' = {k \in 1..Len(result) :
                                ConvertedSize(result[k], ratio) > TextractLimit}
          /\ ocr_sent' = {k \in 1..Len(result) :
                             ~(ConvertedSize(result[k], ratio) > TextractLimit)}
    /\ pc' = "done"
    /\ UNCHANGED <<handler, inputs, locals, outcome, result, history>>

\* Lines 210-215: the event is taken apart.  event['Records'][0] and the
\* subscripts after it raise on an event without them, before object_key is
\* assigned; os.path.basename raises on a key that is not a string, before
\* image_name is assigned.
ReadEvent ==
    /\ hpc = "event"
    /\ object_key' = IF event = "no_records" THEN "unbound" ELSE "bound"
    /\ image_name' = IF event \in {"no_records", "key_not_str"} THEN "unbound"
                                                                ELSE "bound"
    /\ try_raised' = (event \in {"no_records", "key_not_str"})
    /\ hpc' = IF try_raised' THEN "except" ELSE "bucket"
    /\ UNCHANGED <<callee, geo, event, statusCode, propagated, error_written>>

\* Lines 217-222: an event of another bucket is answered with 400.
CheckBucket ==
    /\ hpc = "bucket"
    /\ IF event = "other_bucket"
       THEN statusCode' = StatusBadRequest /\ hpc' = "returned"
       ELSE statusCode' = NoResponse /\ hpc' = "download"
    /\ UNCHANGED <<callee, geo, event, object_key, image_name, propagated,
                   error_written, try_raised>>

\* Line 224: the object is downloaded, or download_file raises.
Download ==
    /\ hpc = "download"
    /\ \E ok \in BOOLEAN :
          /\ try_raised' = ~ok
          /\ hpc' = IF ok THEN "split_image" ELSE "except"
    /\ UNCHANGED <<callee, geo, event, object_key, image_name, statusCode,
                   propagated, error_written>>

\* Lines 231-246, after split_image and ocr_image_parts have returned: the
\* text is combined and analysed, which leaves the list water_resources, or one
\* of the calls raises.
AnalyzeText ==
    /\ hpc = "split_image"
    /\ pc = "done"
    /\ outcome # "raised"
    /\ \/ /\ n_names' \in 0..MaxNames
          /\ try_raised' = FALSE
          /\ hpc' = "geocode"
       \/ /\ n_names' = n_names
          /\ try_raised' = TRUE
          /\ hpc' = "except"
    /\ UNCHANGED <<callee, event, object_key, image_name, statusCode,
                   propagated, error_written, name_idx, resource_coords,
                   geocoding>>

\* A faulty except clause: GeocoderTimedOut alone is caught.
CaughtTimeoutOnlyMutant == {"GeocoderTimedOut"}
\* except (GeocoderTimedOut, GeocoderServiceError), lines 262 and 274.
Caught == {"GeocoderTimedOut", "GeocoderServiceError"}

\* Where the handler is after a geocode call that gave r, in the first try
\* block (retrying) or in the retry's.
AfterGeocode(r, retrying) ==
    IF r \in Caught THEN (IF retrying THEN "geocode" ELSE "retry")
    ELSE IF r \in {"location", "None"} THEN "geocode"
    ELSE "except"

\* Lines 249-261 and 276-277: the first geocode call for the next name.
GeocodeFirst ==
    /\ hpc = "geocode"
    /\ name_idx < n_names
    /\ \E r \in GeocodeResults :
          /\ geocoding' = [first |-> r, retry |-> "", calls |-> 1, sleeps |-> 0]
          /\ hpc' = AfterGeocode(r, FALSE)
          /\ try_raised' = (hpc' = "except")
          /\ name_idx' = IF hpc' = "geocode" THEN name_idx + 1 ELSE name_idx
          /\ resource_coords' = IF r = "location"
                                 THEN resource_coords \cup {name_idx + 1}
                                 ELSE resource_coords
    /\ UNCHANGED <<callee, event, object_key, image_name, statusCode,
                   propagated, error_written, n_names>>

\* Lines 262-277: the first call raised one of the caught exceptions; sleep,
\* then the second geocode call for the same name.
GeocodeRetry ==
    /\ hpc = "retry"
    /\ \E r \in GeocodeResults :
          /\ geocoding' = [geocoding EXCEPT !.retry = r,
                                            !.calls = geocoding.calls + 1,
                                            !.sleeps = geocoding.sleeps + 1]
          /\ hpc' = AfterGeocode(r, TRUE)
          /\ try_raised' = (hpc' = "except")
          /\ name_idx' = IF hpc' = "geocode" THEN name_idx + 1 ELSE name_idx
          /\ resource_coords' = IF r = "location"
                                 THEN resource_coords \cup {name_idx + 1}
                                 ELSE resource_coords
    /\ UNCHANGED <<callee, event, object_key, image_name, statusCode,
                   propagated, error_written, n_names>>

\* Lines 279-466, after the last name: the bounding box and the GeoJSON are
\* built, the GeoJSON and the CSV uploaded and 200 returned, or one of the
\* calls on the way raises.
UploadAndReturn ==
    /\ hpc = "geocode"
    /\ name_idx = n_names
    /\ \E ok \in BOOLEAN :
          /\ try_raised' = ~ok
          /\ statusCode' = IF ok THEN StatusOk ELSE NoResponse
          /\ hpc' = IF ok THEN "returned" ELSE "except"
    /\ UNCHANGED <<callee, geo, event, object_key, image_name, propagated,
                   error_written>>

\* The except block can read object_key (line 469) and image_name (line 471).
NamesBound == object_key = "bound" /\ image_name = "bound"

\* Lines 468-480, the except block, entered from a step of the try block that
\* raised or from split_image raising at line 227: reading an unbound local
\* raises UnboundLocalError out of the handler; otherwise the error object is
\* put and 500 returned, or put_object raises out of the handler.
Except ==
    /\ \/ hpc = "except"
       \/ hpc = "split_image" /\ pc = "done" /\ outcome = "raised"
    /\ try_raised' = TRUE
    /\ IF ~NamesBound
       THEN /\ propagated' = "UnboundLocalError"
            /\ hpc' = "raised"
            /\ UNCHANGED <<statusCode, error_written>>
       ELSE \E put_ok \in BOOLEAN :
               IF put_ok
               THEN /\ error_written' = TRUE
                    /\ statusCode' = StatusError
                    /\ hpc' = "returned"
                    /\ UNCHANGED propagated
               ELSE /\ propagated' = "put_object"
                    /\ hpc' = "raised"
                    /\ UNCHANGED <<statusCode, error_written>>
    /\ UNCHANGED <<callee, geo, event, object_key, image_name>>

Next ==
    \/ ReadEvent
    \/ CheckBucket
    \/ Download
    \/ AnalyzeText
    \/ GeocodeFirst
    \/ GeocodeRetry
    \/ UploadAndReturn
    \/ Except
    \/ Estimate
    \/ BeginGrid
    \/ CellRaises
    \/ EvalCell
    \/ Accept
    \/ RefineRetry
    \/ ReduceUpscale
    \/ GiveUp
    \/ OcrImageParts

Spec == Init /\ [][Next]_vars

\* The interpreter runs the call to its end: no step waits on anything.
FairSpec == Spec /\ WF_vars(Next)

\* ------------------------------------------------------------- claims

\* split_image has returned a list (it did not raise).
Returned == outcome \in {"accepted", "givenup", "fallback"}

\* Indices of the returned parts.
Parts == 1..Len(result)

\* C1: on the success path every returned part was measured in the accepted
\* attempt (its grid and upscale are those of the last grid evaluation) and
\* its measured size is at most max_size * safety_factor.
C1_SuccessSizeBound ==
    outcome = "accepted" =>
        \A k \in Parts :
            /\ result[k].size * SafetyDen <= max_size * SafetyNum
            /\ result[k].cols = grid_cols
            /\ result[k].rows = grid_rows
            /\ result[k].upscale = upscale_factor

\* An accepted grid, reached after a rejected one, with a part exactly at the
\* enforced ceiling.
C1_Witness ==
    /\ outcome = "accepted"
    /\ ~first_attempt
    /\ \E k \in Parts : result[k].size * SafetyDen = max_size * SafetyNum

\* C2: whenever split_image returns, on whichever path, the returned
\* sequence is not empty.
C2_ReturnsNonEmpty == Returned => Len(result) >= 1

\* C3: a call ends accepted or given up, having evaluated grids at no more
\* than ceil((base_upscale_factor - 1) / 0.5) + 1 upscale values.
C3_EndsAcceptedOrGivenUp ==
    pc = "done" =>
        /\ outcome \in {"accepted", "givenup"}
        /\ Cardinality(levels)
              <= CeilDiv(base_upscale_factor - UpscaleFloor, UpscaleStep) + 1

\* Used for C3: the number of upscale values stays within the bound all along.
UpscaleLevelsBounded ==
    Cardinality(levels) <= CeilDiv(base_upscale_factor - UpscaleFloor, UpscaleStep) + 1

\* Used for C3: every call of split_image comes to its end, by a return or by
\* a raise.
CallEnds == (hpc \in {"direct", "split_image"}) ~> (pc = "done")

\* Cell (ci, cj) of the last evaluated grid is the cell of a returned part
\* whose crop contains it.
CellReturned(ci, cj) ==
    \E k \in Parts :
        /\ result[k].i = ci
        /\ result[k].j = cj
        /\ result[k].cols = grid_cols
        /\ result[k].rows = grid_rows
        /\ result[k].left <= OverlapScale * ci * width
        /\ result[k].right >= OverlapScale * (ci + 1) * width
        /\ result[k].upper <= OverlapScale * cj * height
        /\ result[k].lower >= OverlapScale * (cj + 1) * height

\* C4: the cells of the returned parts tile the image: every cell of the
\* grid is the cell of a returned part, and each crop contains its cell.
C4_Coverage ==
    outcome \in {"accepted", "givenup"} =>
        \A ci \in 0..(grid_cols - 1) : \A cj \in 0..(grid_rows - 1) :
            CellReturned(ci, cj)

\* Used for C4: the tiling does hold of every accepted grid.
CoverageOnSuccess ==
    outcome = "accepted" =>
        \A ci \in 0..(grid_cols - 1) : \A cj \in 0..(grid_rows - 1) :
            CellReturned(ci, cj)

\* C5: a 1x1 image comes back as the single unsplit image, and the fallback
\* is taken exactly when the sample has no pixels.
C5_OnePixelFallback ==
    /\ (width = 1 /\ height = 1 /\ pc = "done") =>
          (outcome = "fallback" /\ result = <<WholeImage>>)
    /\ (pc # "estimate") =>
          ((outcome = "fallback")
              <=> (Min(test_size, width) * Min(test_size, height) = 0))

\* C6 as claimed: the sequence returned by the give-up branch holds a part
\* whose measured size exceeds max_size * safety_factor.
C6_GiveUpReturnsOversizePart ==
    outcome = "givenup" =>
        \E k \in Parts : result[k].size * SafetyDen > max_size * SafetyNum

\* C6 as amended: the give-up branch returns only parts measured at or below
\* max_size * safety_factor; the overflowing cell (i, j), whose size
\* part_size is over it, is not among them.
C6_GiveUpPartsWithinLimit ==
    outcome = "givenup" =>
        /\ part_size * SafetyDen > max_size * SafetyNum
        /\ \A k \in Parts :
              /\ result[k].size * SafetyDen <= max_size * SafetyNum
              /\ ~(result[k].i = i /\ result[k].j = j)

\* A give-up that returns parts, the overflow having come after the first cell.
C6_Witness == outcome = "givenup" /\ Len(result) >= 1

\* C7: once seeded, and after every refinement and every reset, both grid
\* counts are at least min_grid_size.
C7_GridCountInvariant ==
    (pc # "estimate" /\ outcome # "fallback") =>
        (M >= min_grid_size /\ N >= min_grid_size)

\* A grid reset by an upscale reduction to min_grid_size columns, and a
\* grid enlarged by a refinement.
C7_Witness ==
    \/ pc = "grid" /\ seeded /\ ~first_attempt /\ M = min_grid_size
    \/ pc = "grid" /\ ~seeded /\ M > min_grid_size

\* C8: an accepted result has M * N parts, part k being cell
\* (k div N, k mod N) counting from 0; the 20000x16000 image with overlap 0.1
\* and min_grid_size 6 accepted on its first attempt has 36 parts.
C8_SuccessOrder ==
    outcome = "accepted" =>
        /\ Len(result) = M * N
        /\ \A k \in Parts :
              /\ result[k].i = (k - 1) \div N
              /\ result[k].j = (k - 1) % N
        /\ (/\ width = 20000
            /\ height = 16000
            /\ overlap = 10
            /\ min_grid_size = HandlerMinGrid
            /\ first_attempt) => Len(result) = 36

\* The scenario's image accepted on the first attempt.
C8_Witness ==
    /\ outcome = "accepted"
    /\ width = 20000
    /\ height = 16000
    /\ min_grid_size = HandlerMinGrid
    /\ first_attempt
    /\ Len(result) = 36

\* m is max(min_grid_size, ceil(dim * (1 + 2 * overlap) / max_dim)), said
\* without the division: m cells of max_dim hold the overlapped dimension,
\* and m - 1 do not unless min_grid_size asks for m.
IsSeed(m, dim) ==
    /\ m >= min_grid_size
    /\ m * max_dim * OverlapScale >= dim * (OverlapScale + 2 * overlap)
    /\ (m > min_grid_size) =>
          (m - 1) * max_dim * OverlapScale < dim * (OverlapScale + 2 * overlap)

\* C9: the grid a seeding leaves (the first one, and the one recomputed at
\* each upscale reduction) is max(min_grid_size, ceil(W*(1+2*overlap)/8000))
\* by max(min_grid_size, ceil(H*(1+2*overlap)/8000)).
C9_Seeding ==
    (pc = "grid" /\ seeded) => (IsSeed(M, width) /\ IsSeed(N, height))

\* A seed grid set by the image's width, not by min_grid_size, computed anew
\* at an upscale reduction.
C9_Witness ==
    pc = "grid" /\ seeded /\ ~first_attempt /\ M > min_grid_size

\* The parameters of the call are split_image's defaults, or those of the call
\* in lambda_handler (overlap 0.1, min_grid_size 6).
DefaultParameters ==
    /\ max_size = DefaultMaxSize
    /\ overlap = 10
    /\ base_upscale_factor = UpscaleFloor
    /\ min_grid_size \in {DefaultMinGrid, HandlerMinGrid}

\* C10: with the default parameters, every part of an accepted result is at
\* most 10,000,000 bytes and none is skipped by ocr_image_parts.
C10_NoSuccessPartSkipped ==
    (DefaultParameters /\ outcome = "accepted" /\ pc = "done") =>
        /\ \A k \in Parts : result[k].size <= TextractLimit
        /\ ocr_skipped = {}

\* Used for C10: the sizes split_image measured are within the Textract limit.
MeasuredWithinTextractLimit ==
    (max_size = DefaultMaxSize /\ outcome = "accepted") =>
        \A k \in Parts : result[k].size <= TextractLimit

\* m is int(m0 * sqrt(ps / (max_size * safety_factor))) + 1, said without the
\* root: m - 1 squared is at most m0 squared times the oversize factor, and m
\* squared is more.
IsRefined(m, m0, ps) ==
    LET g == Gcd(ps * SafetyDen, max_size * SafetyNum)
        num == (ps * SafetyDen) \div g
        den == (max_size * SafetyNum) \div g
    IN  /\ (m - 1) * (m - 1) * den <= m0 * m0 * num
        /\ m * m * den > m0 * m0 * num

\* C11: in one grid evaluation at most one cell is measured over the limit
\* and no cell is evaluated after it: the parts kept are the cells before it;
\* the grid of the next attempt is computed from the size of that cell.
C11_EarlyExit ==
    /\ overflows <= 1
    /\ (pc = "cell") => (overflows = 0)
    /\ (pc = "decide" /\ ~all_parts_within_limit) =>
          /\ overflows = 1
          /\ part_size = overflow_size
          /\ Len(image_parts) = i * grid_rows + j
    /\ (pc = "grid" /\ ~seeded) =>
          /\ IsRefined(M, grid_cols, overflow_size)
          /\ IsRefined(N, grid_rows, overflow_size)

\* An evaluation stopped at an overflowing cell that has cells before it and
\* cells after it.
C11_Witness ==
    /\ pc = "decide"
    /\ overflows = 1
    /\ Len(image_parts) >= 1
    /\ NextCell(i, j, grid_cols, grid_rows)[3]

\* C12: the update of M and N after an overflow (line 85-86, on the retry
\* and on the give-up path) leaves both strictly larger, and a grid
\* evaluation that follows one at the same upscale has more columns, more
\* rows and no fewer cells than it.
C12_MonotoneRefinement ==
    [][/\ (pc = "decide" /\ pc' = "grid" /\ ~seeded') => (M' > M /\ N' > N)
       /\ (pc = "decide" /\ outcome' = "givenup") => (M' > M /\ N' > N)
       /\ (pc = "grid" /\ pc' = "cell" /\ upscale_factor \in levels) =>
             /\ grid_cols' > grid_cols
             /\ grid_rows' > grid_rows
             /\ grid_cols' * grid_rows' >= grid_cols * grid_rows]_vars

\* A refined grid under evaluation, larger than the seed in both directions.
C12_Witness ==
    /\ pc = "cell"
    /\ ~seeded
    /\ upscale_factor \in levels
    /\ grid_cols > SeedGrid(width, overlap, min_grid_size)
    /\ grid_rows > SeedGrid(height, overlap, min_grid_size)

\* C13: after an overflow the loop retries, with M and N enlarged and the
\* upscale unchanged, exactly when W/M and H/N of the grid just evaluated
\* (M and N before the enlargement) are both at least 500; otherwise it
\* reduces the upscale or gives up.
C13_DecisionOnEvaluatedGrid ==
    [][(pc = "decide" /\ ~all_parts_within_limit) =>
          LET both == width >= MinCellDim * M /\ height >= MinCellDim * N
              retry == /\ pc' = "grid"
                       /\ upscale_factor' = upscale_factor
                       /\ M' > M
                       /\ N' > N
          IN  /\ retry <=> both
              /\ ~both => \/ pc' = "grid" /\ upscale_factor' < upscale_factor
                          \/ outcome' = "givenup"]_vars

\* A retry whose enlarged grid has cells under 500 pixels: the cells of the
\* grid just evaluated were not.
C13_Witness ==
    /\ pc = "grid"
    /\ ~seeded
    /\ width >= MinCellDim * grid_cols
    /\ height >= MinCellDim * grid_rows
    /\ (width < MinCellDim * M \/ height < MinCellDim * N)

\* C14: on an overflow with a cell dimension under 500 and an upscale above
\* 1.0, the upscale goes down by exactly 0.5 (from 2.0 to 1.5), M and N are
\* the seed values again, the enlargement gone, and the loop goes on: the
\* step that follows is the start of a grid evaluation.
C14_UpscaleReduction ==
    [][/\ (/\ pc = "decide"
           /\ ~all_parts_within_limit
           /\ (width < MinCellDim * M \/ height < MinCellDim * N)
           /\ upscale_factor > UpscaleFloor) =>
             /\ upscale_factor' = upscale_factor - UpscaleStep
             /\ (upscale_factor = 20) => (upscale_factor' = 15)
             /\ IsSeed(M', width)
             /\ IsSeed(N', height)
             /\ pc' = "grid"
             /\ outcome' = "none"
       /\ (pc = "grid") => (/\ pc' = "cell"
                            /\ grid_cols' = M
                            /\ grid_rows' = N
                            /\ upscale_factor' = upscale_factor)]_vars

\* The attempt after the first reduction from 2.0: the seed grid evaluated
\* at 1.5.
C14_Witness ==
    /\ base_upscale_factor = 20
    /\ pc = "cell"
    /\ seeded
    /\ ~first_attempt
    /\ upscale_factor = 15
    /\ grid_cols = SeedGrid(width, overlap, min_grid_size)
    /\ grid_rows = SeedGrid(height, overlap, min_grid_size)

\* C15: whatever base_upscale_factor >= 1.0 the call starts from, no grid is
\* evaluated at an upscale below 1.0, and the give-up branch is taken at
\* upscale 1.0 only.
C15_UpscaleFloor ==
    /\ (pc \in {"cell", "decide"}) => (upscale_factor >= UpscaleFloor)
    /\ (outcome = "givenup") => (upscale_factor = UpscaleFloor)

\* Used for C15: the floor does hold of the bases that are 1.0 plus a whole
\* number of 0.5 steps.
UpscaleFloorOnHalfSteps ==
    ((base_upscale_factor - UpscaleFloor) % UpscaleStep = 0) =>
        /\ (pc \in {"cell", "decide"}) => (upscale_factor >= UpscaleFloor)
        /\ (outcome = "givenup") => (upscale_factor = UpscaleFloor)

\* parts were all cropped in the grid evaluation last begun, under its M, N
\* and upscale.
OfLastEvaluation(parts) ==
    \A k \in 1..Len(parts) :
        /\ parts[k].cols = grid_cols
        /\ parts[k].rows = grid_rows
        /\ parts[k].upscale = upscale_factor

\* C16: a grid evaluation starts on an empty part list, the list holds
\* parts of the evaluation under way only, and what a success or a give-up
\* returns is that list of the last evaluation: no part of an attempt
\* rejected earlier is in it.
C16_NoLeakage ==
    /\ (pc = "cell" /\ i = 0 /\ j = 0) => (image_parts = <<>>)
    /\ (pc \in {"cell", "decide"}) => OfLastEvaluation(image_parts)
    /\ (outcome \in {"accepted", "givenup"}) =>
          (result = image_parts /\ OfLastEvaluation(result))

\* Parts returned after the parts of a rejected attempt were dropped.
C16_Witness ==
    /\ outcome \in {"accepted", "givenup"}
    /\ discarded
    /\ Len(result) >= 1

\* C17: the give-up branch returns the cells of the last rejected grid that
\* come before the overflowing cell (i, j) in the order of enumeration, in
\* that order and without that cell: fewer parts than the grid has cells.
C17_GiveUpResult ==
    outcome = "givenup" =>
        /\ Len(result) = i * grid_rows + j
        /\ Len(result) < grid_cols * grid_rows
        /\ \A k \in Parts :
              /\ result[k].i = (k - 1) \div grid_rows
              /\ result[k].j = (k - 1) % grid_rows
              /\ result[k].cols = grid_cols
              /\ result[k].rows = grid_rows

\* A give-up whose overflowing cell is in the second column or beyond, with
\* cells of the grid left unvisited after it.
C17_Witness ==
    /\ outcome = "givenup"
    /\ i >= 1
    /\ Len(result) >= 2
    /\ Len(result) + 1 < grid_cols * grid_rows

\* The estimates the sample of this image could give.
OtherEstimates ==
    {estimate_size_per_pixel(width, height, test_size, S) :
        S \in Encodable(SampleSizes,
                        Min(test_size, width) * Min(test_size, height))}

\* The estimator is called once, before the seeding and before any cell is
\* evaluated.
EstimatedOnceUpFront ==
    /\ (pc = "estimate") =>
          (est_calls = 0 /\ M = 0 /\ N = 0 /\ levels = {} /\ image_parts = <<>>)
    /\ (pc # "estimate") => (est_calls = 1)

\* C18 as claimed: the estimator is called once up front, and the seeded
\* M, N are determined using its estimate: another estimate of the sample
\* seeds another grid.
C18_SeedFromEstimate ==
    /\ EstimatedOnceUpFront
    /\ (pc = "grid" /\ seeded /\ first_attempt) =>
          \E spp \in OtherEstimates : SeedAfterEstimate(spp) # <<M, N>>

\* C18 as amended: the estimator is called once up front, and its estimate
\* decides nothing but the fallback: the seeded M, N are what any other
\* estimate of the sample seeds too.
C18_SeedWhateverEstimate ==
    /\ EstimatedOnceUpFront
    /\ (pc = "grid" /\ seeded /\ first_attempt) =>
          \A spp \in OtherEstimates : SeedAfterEstimate(spp) = <<M, N>>

\* A grid seeded after an estimate, of a sample that has another estimate.
C18_Witness ==
    /\ pc = "grid"
    /\ seeded
    /\ first_attempt
    /\ est_calls = 1
    /\ \E spp \in OtherEstimates : spp # size_per_pixel

\* The crop bounds of the cell under evaluation are inside the image and not
\* empty (bounds are in units of 1 / (OverlapScale * grid count) pixel).
CropWithinImage ==
    (pc = "cell") =>
        LET p == MakePart(i, j, 0)
        IN  /\ 0 <= p.left
            /\ p.left < p.right
            /\ p.right <= OverlapScale * grid_cols * width
            /\ 0 <= p.upper
            /\ p.upper < p.lower
            /\ p.lower <= OverlapScale * grid_rows * height

\* C19: every cell of every grid has crop bounds with
\* 0 <= left < right <= W and 0 <= upper < lower <= H and a resize target of
\* at least one pixel each way, and no attempt fails on a zero-sized part.
C19_WellFormedGeometry ==
    /\ CropWithinImage
    /\ (pc = "cell") =>
          (MakePart(i, j, 0).new_width >= 1 /\ MakePart(i, j, 0).new_height >= 1)
    /\ outcome # "raised"

\* lambda_handler is over: it returned a response or an exception left it.
HandlerOver == hpc \in {"returned", "raised"}

\* C20: whenever a step inside the try block of lambda_handler raises, the
\* reading of event['Records'][0] on a malformed event included, the handler
\* writes the error object and returns statusCode 500, and no exception
\* leaves it.
C20_HandlerErrorPath ==
    (HandlerOver /\ try_raised) =>
        /\ statusCode = StatusError
        /\ error_written
        /\ propagated = "none"

\* Used for C20: an exception leaves the handler only from the except block
\* itself, on an unbound name or on a failing put_object; a raise after both
\* names are bound, the put succeeding, is answered as claimed.
ErrorPathOnceNamesBound ==
    (HandlerOver /\ try_raised /\ propagated = "none") =>
        /\ NamesBound
        /\ statusCode = StatusError
        /\ error_written

\* The exceptions the claim is about.
GeocodingErrors == {"GeocoderTimedOut", "GeocoderServiceError"}

\* The name geocoded last got one geocode call, and a second one, after one
\* sleep, exactly when the first raised a geocoding error.
RetriedExactlyOnce ==
    /\ geocoding.calls <= 2
    /\ (hpc = "retry") =>
          /\ geocoding.first \in GeocodingErrors
          /\ geocoding.calls = 1
          /\ geocoding.sleeps = 0
    /\ (hpc # "retry" /\ geocoding.first \in GeocodingErrors) =>
          /\ geocoding.calls = 2
          /\ geocoding.sleeps = 1
          /\ geocoding.retry # ""
    /\ (geocoding.first \notin GeocodingErrors) =>
          /\ geocoding.calls <= 1
          /\ geocoding.sleeps = 0
          /\ geocoding.retry = ""

\* The result of the geocode call made in this step.
ThisCall == IF hpc = "retry" THEN geocoding'.retry ELSE geocoding'.first

====
